---- MODULE Spec2Model ----
(***************************************************************************)
(* github-audit-alerter: one run of main() over the organization's audit   *)
(* log.  The run fetches the "web" audit events, classifies them against   *)
(* the two ignore lists and the critical repositories, notifies on every   *)
(* match, then fetches the "git" events, aggregates git.clone events per   *)
(* actor, notifies on the clones of every actor at or over the threshold,  *)
(* and finally panics when any webhook post failed.                        *)
(*                                                                         *)
(* Strings are TLA+ strings; the i-th character of s is SubSeq(s, i, i).   *)
(* Timestamps are integers; t1.Before(t2) is t1 < t2.                      *)
(***************************************************************************)
EXTENDS Integers, Sequences, FiniteSets, TLC

----------------------------------------------------------------------------
(* Package-level defaults (main.go, var blocks).                           *)

universalIgnore ==
  << "account.plan_change", "actions_cache.*", "environment.add_protection_rule",
     "environment.create", "environment.delete", "hook.events_changed",
     "integration_installation.repositories_removed", "issue.*", "merge_queue.*",
     "org_credential_authorization.*", "org.self_hosted_runner_.*", "org.sso_response",
     "packages.package_deleted", "packages.package_version_published",
     "personal_access_token.access_revoked", "personal_access_token.request_created",
     "project.*", "protected_branch.authorized_users_teams", "public_key.delete",
     "public_key.update", "pull_request.*", "repo.create", "repo.download_zip",
     "repo.pages_.*", "repo.remove_actions_secret", "repo.remove_member",
     "repo.remove_self_hosted_runner", "repo.self_hosted_runner_offline",
     "repository_dependency_graph.enable", "repository_projects.*",
     "repository_secret_scanning.enable", "repository_vulnerability_alert.auto_dismiss",
     "repository_vulnerability_alert.dismiss", "repository_vulnerability_alert.resolve",
     "repository_vulnerability_alerts.enable", "repo.update_actions_secret",
     "required_status_check.create", "team.add_repository", "workflows.*" >>

nonCriticalIgnore ==
  << "environment.update_protection_rule", "hook.config_changed", "hook.create",
     "integration_installation.*", "integration_installation.repositories_added",
     "org.add_member", "org.add_outside_collaborator", "org.invite_member",
     "private_repository_forking.*", "protected_branch.*",
     "protected_branch.update_allow_force_pushes_enforcement_level",
     "public_key.create", "public_key.verify", "repo.actions_enabled",
     "repo.add_member", "repo.add_topic", "repo.archived", "repo.change_merge_setting",
     "repo.create_actions_secret", "repo.destroy", "repo.register_self_hosted_runner",
     "repo.rename", "repo.self_hosted_runner_online",
     "repo.set_default_workflow_permissions",
     "repo.set_workflow_permission_can_approve_pr", "repository_invitation.accept",
     "repository_invitation.cancel", "repository_invitation.create",
     "repository_vulnerability_alert.create",
     "repository_vulnerability_alert.reintroduce", "repo.transfer", "repo.unarchived",
     "repo.update_actions_secret", "repo.update_member",
     "required_status_check.destroy", "team.*" >>

\* flag defaults: --bot-name "-bot,[bot],deploy,guardian", split on ","
botNameFlag == << "-bot", "[bot]", "deploy", "guardian" >>

----------------------------------------------------------------------------
(* Go library functions the program calls, as they compute.                *)

Range(f) == { f[i] : i \in DOMAIN f }

Min(a, b) == IF a < b THEN a ELSE b

\* strings.Contains(s, substr)
Contains(s, substr) ==
  \E i \in 1..(Len(s) + 1) :
     /\ i + Len(substr) - 1 <= Len(s)
     /\ SubSeq(s, i, i + Len(substr) - 1) = substr

\* strings.HasSuffix(s, suffix)
HasSuffix(s, suffix) ==
  /\ Len(s) >= Len(suffix)
  /\ SubSeq(s, Len(s) - Len(suffix) + 1, Len(s)) = suffix

\* filepath.Base(path): "" gives ".", trailing separators are stripped, the
\* part after the last separator is kept, a path of separators only gives "/".
RECURSIVE stripTrailingSlashes(_)
stripTrailingSlashes(path) ==
  IF Len(path) > 0 /\ SubSeq(path, Len(path), Len(path)) = "/"
  THEN stripTrailingSlashes(SubSeq(path, 1, Len(path) - 1))
  ELSE path

RECURSIVE afterLastSlash(_, _)
afterLastSlash(path, i) ==
  IF i = 0 THEN path
  ELSE IF SubSeq(path, i, i) = "/" THEN SubSeq(path, i + 1, Len(path))
  ELSE afterLastSlash(path, i - 1)

Base(path) ==
  IF path = "" THEN "."
  ELSE LET p == stripTrailingSlashes(path) IN
       IF p = "" THEN "/" ELSE afterLastSlash(p, Len(p))

\* regexp matching for the syntax the ignore lists use: literal characters,
\* "." (any character), "x*" (zero or more x), "^" and "$" anchors.
RECURSIVE matchHere(_, _)
RECURSIVE matchStar(_, _, _)
matchHere(re, text) ==
  IF re = "" THEN TRUE
  ELSE IF Len(re) >= 2 /\ SubSeq(re, 2, 2) = "*"
       THEN matchStar(Head(re), SubSeq(re, 3, Len(re)), text)
  ELSE IF Head(re) = "$"
       THEN text = "" /\ matchHere(Tail(re), text)
  ELSE /\ text # ""
       /\ (Head(re) = "." \/ Head(re) = Head(text))
       /\ matchHere(Tail(re), Tail(text))

matchStar(c, re, text) ==
  \/ matchHere(re, text)
  \/ /\ text # ""
     /\ (c = "." \/ c = Head(text))
     /\ matchStar(c, re, Tail(text))

\* one alternative of the compiled expression, searched anywhere in text
matchAlternative(re, text) ==
  IF re # "" /\ Head(re) = "^"
  THEN matchHere(Tail(re), text)
  ELSE \E k \in 1..(Len(text) + 1) : matchHere(re, SubSeq(text, k, Len(text)))

\* ig = append(ig, fmt.Sprintf("^%s$", i)); regexp.MustCompile(strings.Join(ig, "|")):
\* the compiled expression is the sequence of its "|" alternatives (no
\* pattern of the lists holds "|" or a group); an empty list joins to "",
\* the expression that matches every string.
compileIgnore(patterns) ==
  [i \in DOMAIN patterns |-> "^" \o patterns[i] \o "$"]

\* (*Regexp).MatchString
MatchString(re, text) ==
  IF re = <<>> THEN TRUE
  ELSE \E i \in DOMAIN re : matchAlternative(re[i], text)

----------------------------------------------------------------------------
(* Model bounds and the inputs of a run.                                   *)

MaxWebLog == 2      \* records in the "web" audit log of the core runs
MaxGitLog == 3      \* records in the "git" audit log
PageSize == 2       \* records the audit-log API returns per page
MaxTime == 2        \* timestamps are 0..MaxTime

Times == 0..MaxTime

orgFlag == "acme"

\* github.AuditEntry, the fields the program reads
AuditEntry(actor, action, repo, repository, public, ts) ==
  [actor |-> actor, action |-> action, org |-> orgFlag, repo |-> repo,
   repository |-> repository, public |-> public, ts |-> ts]

\* all sequences over S of length at most n
RECURSIVE SeqsUpTo(_, _)
SeqsUpTo(S, n) ==
  IF n = 0 THEN { <<>> }
  ELSE LET shorter == SeqsUpTo(S, n - 1) IN
       shorter \cup { Append(q, x) : q \in { r \in shorter : Len(r) = n - 1 }, x \in S }

\* the audit logs over S of length at most n: the source yields newest first
RECURSIVE LogsUpTo(_, _)
LogsUpTo(S, n) ==
  IF n = 0 THEN { <<>> }
  ELSE LET shorter == LogsUpTo(S, n - 1) IN
       shorter \cup
       { Append(p[1], p[2]) :
           p \in { qx \in { r \in shorter : Len(r) = n - 1 } \X S :
                     qx[1] = <<>> \/ qx[1][Len(qx[1])].ts >= qx[2].ts } }

WebActions ==
  { "repo.create", "pull_request.merge", "team.add_repository",
    "repo.destroy", "team.add_member", "repo.access" }

WebActors == { "mallory", "dependabot[bot]", "deployer" }

\* <<repo, repository>> as the source may populate them
WebRepoFields ==
  { <<"acme/sec", "">>, <<"", "acme/sec">>, <<"sec", "">>, <<"", "sec">>,
    <<"acme/pub", "acme/sec">>, <<"acme/sec", "acme/pub">>, <<"", "">> }

WebEntries ==
  { AuditEntry(u, act, rf[1], rf[2], FALSE, MaxTime) :
      u \in WebActors, act \in WebActions, rf \in WebRepoFields }

CoreWebEntries ==
  { AuditEntry("mallory", "repo.access", "acme/sec", "acme/sec", FALSE, MaxTime),
    AuditEntry("mallory", "repo.destroy", "acme/pub", "acme/pub", FALSE, MaxTime) }

CoreWebLogs == LogsUpTo(CoreWebEntries, MaxWebLog)

\* <<repo, repository>> of the clone events
GitRepoFields ==
  { <<"acme/one", "acme/one">>, <<"fork/one", "fork/one">>, <<"acme/two", "acme/two">>,
    <<"", "acme/two">>, <<"", "acme/three">> }

\* the clone events of one actor, over every repository and time
GitEntries ==
  { AuditEntry("mallory", "git.clone", rf[1], rf[2], FALSE, t) :
      rf \in GitRepoFields, t \in Times }

\* clone events of two actors, and the events the grouping loop skips
MixedGitEntries ==
  { AuditEntry(u, "git.clone", rf[1], rf[2], FALSE, MaxTime) :
      u \in { "mallory", "bob" },
      rf \in { <<"acme/one", "acme/one">>, <<"acme/two", "acme/two">> } }
  \cup { AuditEntry("mallory", "git.clone", "acme/pub", "acme/pub", TRUE, MaxTime),
         AuditEntry("mallory", "git.fetch", "acme/four", "acme/four", FALSE, MaxTime),
         AuditEntry("ci-bot", "git.clone", "acme/five", "acme/five", FALSE, MaxTime) }

GitLogs == LogsUpTo(GitEntries, MaxGitLog) \cup SeqsUpTo(MixedGitEntries, MaxGitLog)

CoreGitEntries ==
  { AuditEntry("mallory", "git.clone", rf[1], rf[2], FALSE, MaxTime) :
      rf \in { <<"acme/one", "acme/one">>, <<"acme/two", "acme/two">>,
               <<"acme/three", "acme/three">>, <<"", "acme/two">>,
               <<"", "acme/three">> } }

\* the core git logs hold each event once
CoreGitLogs ==
  { l \in SeqsUpTo(CoreGitEntries, MaxGitLog) : Cardinality(Range(l)) = Len(l) }

\* Settings as main() fills it; Since and MaxClonesSince are now minus the
\* two intervals, the clone interval being the longer one.
Settings(criticalRepos, maxClonedRepos, since, maxClonesSince) ==
  [Org |-> orgFlag, Since |-> since, MaxClonesSince |-> maxClonesSince,
   BotNames |-> botNameFlag,
   GlobalIgnoreActions |-> universalIgnore,
   NonCriticalIgnoreActions |-> nonCriticalIgnore,
   CriticalRepos |-> criticalRepos, MaxClonedRepos |-> maxClonedRepos]

\* the flags and times that vary between runs
Flags(criticalRepos, maxReposCloned, since, maxClonesSince) ==
  [criticalRepos |-> criticalRepos, maxReposCloned |-> maxReposCloned,
   since |-> since, maxClonesSince |-> maxClonesSince]

\* --critical-repos split on ","; the flag's default "" splits to <<"">>
CriticalRepoFlags == { <<"">>, <<"sec">>, <<"acme/sec">>, <<"pub", "acme/sec">> }

Thresholds == { 2, 3 }

\* <<MaxClonesSince, Since>>
Windows == { <<1, 1>>, <<1, MaxTime>> }

----------------------------------------------------------------------------
(* The program.                                                            *)

VARIABLES
  flags,        \* the run's flags: critical repositories, threshold, window starts
  webhook,      \* GH_AUDIT_SLACK_WEBHOOK: "" or the URL
  remoteWeb,    \* the organization's "web" audit log at the source
  remoteGit,    \* the organization's "git" audit log at the source
  pc,           \* where main() is
  wes,          \* main: web-event matches
  ces,          \* main: clone matches
  idx,          \* position of the running notify loop
  postFailures, \* main: postFailures
  attempts,     \* the notify calls made so far, in order: entry, text, outcome
  cloneGroups,  \* cloneEvents: the per-actor map of clone events it built
  flagged,      \* cloneEvents: the actors at or over the threshold
  fatal         \* the message of the panic that ended the run, or ""

vars == << flags, webhook, remoteWeb, remoteGit, pc, wes, ces, idx, postFailures,
           attempts, cloneGroups, flagged, fatal >>

\* main: s := Settings{...}
s == Settings(flags.criticalRepos, flags.maxReposCloned, flags.since, flags.maxClonesSince)

\* one page of the audit log and whether the response carries an After cursor
page(remote, k) == SubSeq(remote, (k - 1) * PageSize + 1, Min(k * PageSize, Len(remote)))
hasAfter(remote, k) == k * PageSize < Len(remote)

\* for _, l := range logs { as = append(as, l); if l.GetTimestamp().Before(since) { return } }
RECURSIVE appendPage(_, _, _)
appendPage(as, logs, since) ==
  IF logs = <<>> THEN [as |-> as, returned |-> FALSE]
  ELSE IF Head(logs).ts < since
       THEN [as |-> Append(as, Head(logs)), returned |-> TRUE]
  ELSE appendPage(Append(as, Head(logs)), Tail(logs), since)

\* for resp.After != "" { ... }
RECURSIVE nextPages(_, _, _, _)
nextPages(as, remote, k, since) ==
  IF ~hasAfter(remote, k) THEN as
  ELSE LET logs == page(remote, k + 1)
           r == appendPage(as, logs, since)
       IN IF logs = <<>> THEN as
          ELSE IF r.returned THEN r.as
          ELSE nextPages(r.as, remote, k + 1, since)

\* auditLog when no request fails
auditLog(remote, since) ==
  LET r == appendPage(<<>>, page(remote, 1), since) IN
  IF r.returned THEN r.as ELSE nextPages(r.as, remote, 1, since)

\* isBot testing for the pattern anywhere in the name
isBotContains(name, botNames) ==
  \E i \in DOMAIN botNames : Contains(name, botNames[i])

isBot(name, botNames) ==
  \E i \in DOMAIN botNames : HasSuffix(name, botNames[i])

\* webEvents: critical := map[string]bool{} ...
criticalMap(st) ==
  { IF Contains(r, "/") THEN r ELSE st.Org \o "/" \o r : r \in Range(st.CriticalRepos) }

\* the ignore tests with the critical repositories exempt from both lists
webIgnoredCriticalFirst(a, st) ==
  /\ a.repo \notin criticalMap(st)
  /\ \/ MatchString(compileIgnore(st.GlobalIgnoreActions), a.action)
     \/ MatchString(compileIgnore(st.NonCriticalIgnoreActions), a.action)

\* webEvents: the two ignore tests of the loop body
webIgnored(a, st) ==
  \/ MatchString(compileIgnore(st.GlobalIgnoreActions), a.action)
  \/ /\ a.repo \notin criticalMap(st)
     /\ MatchString(compileIgnore(st.NonCriticalIgnoreActions), a.action)

\* webEvents: the loop body's decision to append a to matches
webMatch(a, st) ==
  /\ ~webIgnored(a, st)
  /\ ~isBot(a.actor, st.BotNames)

webEvents(audit, st) == SelectSeq(audit, LAMBDA a : webMatch(a, st))

\* cloneEvents: the three filters of the grouping loop
cloneQualifies(a, st) ==
  /\ a.action = "git.clone"
  /\ ~a.public
  /\ ~isBot(a.actor, st.BotNames)

\* cloneEvents: the cloneEvents map, actor -> events in log order
groupClones(audit, st) ==
  LET kept == SelectSeq(audit, LAMBDA a : cloneQualifies(a, st)) IN
  [u \in { a.actor : a \in Range(kept) } |->
     SelectSeq(kept, LAMBDA a : a.actor = u)]

\* the repository set keyed by the whole repository field
clonedReposFullName(events) == { e.repository : e \in Range(events) }

\* cloneEvents: repos[filepath.Base(e.GetRepository())] = true
clonedRepos(events) == { Base(e.repository) : e \in Range(events) }

\* cloneEvents: if len(repos) >= s.MaxClonedRepos
excessive(events, st) == Cardinality(clonedRepos(events)) >= st.MaxClonedRepos

\* the reporting loop skipping the events at s.Since as well
RECURSIVE reportClonesStrict(_, _, _)
reportClonesStrict(events, seen, st) ==
  IF events = <<>> THEN <<>>
  ELSE LET e == Head(events) IN
       IF e.ts <= st.Since THEN reportClonesStrict(Tail(events), seen, st)
       ELSE (IF e.repo \notin seen THEN <<e>> ELSE <<>>)
            \o reportClonesStrict(Tail(events), seen \cup {e.repo}, st)

\* cloneEvents: the reporting loop over one actor's events
RECURSIVE reportClones(_, _, _)
reportClones(events, seen, st) ==
  IF events = <<>> THEN <<>>
  ELSE LET e == Head(events) IN
       IF e.ts < st.Since THEN reportClones(Tail(events), seen, st)
       ELSE (IF e.repo \notin seen THEN <<e>> ELSE <<>>)
            \o reportClones(Tail(events), seen \cup {e.repo}, st)

\* cloneEvents: for u, events := range cloneEvents, in the order `order`
RECURSIVE rangeClones(_, _, _)
rangeClones(groups, order, st) ==
  IF order = <<>> THEN <<>>
  ELSE (IF excessive(groups[Head(order)], st)
        THEN reportClones(groups[Head(order)], {}, st) ELSE <<>>)
       \o rangeClones(groups, Tail(order), st)

\* the orders a range over a map with these keys may take
Orders(keys) ==
  { o \in SeqsUpTo(keys, Cardinality(keys)) :
      Len(o) = Cardinality(keys) /\ Range(o) = keys }

\* the location taken from repository first
locationRepositoryFirst(a) ==
  LET repo == IF a.repository = "" THEN a.repo ELSE a.repository IN
  IF repo = "" THEN a.org
  ELSE IF Contains(repo, "/") THEN repo
  ELSE a.org \o "/" \o repo

\* auditMsg: the location
location(a) ==
  LET repo == IF a.repo = "" THEN a.repository ELSE a.repo IN
  IF repo = "" THEN a.org
  ELSE IF Contains(repo, "/") THEN repo
  ELSE a.org \o "/" \o repo

\* auditMsg: "<actor>: *<action>* on *<location>*: <ts> ..."; prefix is what
\* main puts before it
auditMsg(prefix, a) ==
  [prefix |-> prefix, actor |-> a.actor, action |-> a.action,
   location |-> location(a), ts |-> a.ts]

\* the prefix carrying the flag's default instead of the run's threshold
clonePrefixFlagDefault(st) == "excessive clone[>=" \o ToString(5) \o "]: "

\* main: fmt.Sprintf("excessive clone[>=%d]: %s", s.MaxClonedRepos, ...)
clonePrefix(st) == "excessive clone[>=" \o ToString(st.MaxClonedRepos) \o "]: "

\* notify: the outcomes a call may have
notifyOutcomes(url) == IF url = "" THEN { TRUE } ELSE BOOLEAN

\* the loop body without postFailures++
NotifyUncounted(text, e, ok) ==
  /\ attempts' = Append(attempts, [entry |-> e, text |-> text,
                                   posted |-> webhook # "", ok |-> ok])
  /\ postFailures' = postFailures
  /\ idx' = idx + 1

\* the body of main's two notify loops: e is the entry the text was made of
Notify(text, e, ok) ==
  /\ attempts' = Append(attempts, [entry |-> e, text |-> text,
                                   posted |-> webhook # "", ok |-> ok])
  /\ postFailures' = IF ok THEN postFailures ELSE postFailures + 1
  /\ idx' = idx + 1

\* main: wes, err := webEvents(ctx, c, s) with err == nil
WebEventsOk ==
  /\ pc = "webEvents"
  /\ wes' = webEvents(auditLog(remoteWeb, s.Since), s)
  /\ idx' = 1
  /\ pc' = "notifyWeb"
  /\ UNCHANGED << flags, webhook, remoteWeb, remoteGit, ces, postFailures, attempts,
                  cloneGroups, flagged, fatal >>

\* a failed web fetch that is logged and not fatal
WebEventsErrContinues ==
  /\ pc = "webEvents"
  /\ fatal' = "web events"
  /\ idx' = 1
  /\ pc' = "notifyWeb"
  /\ UNCHANGED << flags, webhook, remoteWeb, remoteGit, wes, ces, postFailures,
                  attempts, cloneGroups, flagged >>

\* main: wes, err := webEvents(ctx, c, s) with err != nil
WebEventsErr ==
  /\ pc = "webEvents"
  /\ fatal' = "web events"
  /\ pc' = "panic"
  /\ UNCHANGED << flags, webhook, remoteWeb, remoteGit, wes, ces, idx, postFailures,
                  attempts, cloneGroups, flagged >>

\* main: one iteration of for _, e := range wes
NotifyWeb ==
  /\ pc = "notifyWeb"
  /\ idx <= Len(wes)
  /\ \E ok \in notifyOutcomes(webhook) : Notify(auditMsg("", wes[idx]), wes[idx], ok)
  /\ UNCHANGED << flags, webhook, remoteWeb, remoteGit, pc, wes, ces, cloneGroups,
                  flagged, fatal >>

\* main: ces, err := cloneEvents(ctx, c, s) with err == nil
CloneEventsOk ==
  /\ pc = "notifyWeb"
  /\ idx > Len(wes)
  /\ LET groups == groupClones(auditLog(remoteGit, s.MaxClonesSince), s) IN
       /\ cloneGroups' = groups
       /\ flagged' = { u \in DOMAIN groups : excessive(groups[u], s) }
       /\ \E order \in Orders(DOMAIN groups) : ces' = rangeClones(groups, order, s)
  /\ idx' = 1
  /\ pc' = "notifyClone"
  /\ UNCHANGED << flags, webhook, remoteWeb, remoteGit, wes, postFailures, attempts, fatal >>

\* main: ces, err := cloneEvents(ctx, c, s) with err != nil
CloneEventsErr ==
  /\ pc = "notifyWeb"
  /\ idx > Len(wes)
  /\ fatal' = "clone events"
  /\ pc' = "panic"
  /\ UNCHANGED << flags, webhook, remoteWeb, remoteGit, wes, ces, idx, postFailures,
                  attempts, cloneGroups, flagged >>

\* main: one iteration of for _, e := range ces
NotifyClone ==
  /\ pc = "notifyClone"
  /\ idx <= Len(ces)
  /\ \E ok \in notifyOutcomes(webhook) : Notify(auditMsg(clonePrefix(s), ces[idx]), ces[idx], ok)
  /\ UNCHANGED << flags, webhook, remoteWeb, remoteGit, pc, wes, ces, cloneGroups,
                  flagged, fatal >>

\* main: if postFailures > 0 { log.Panicf(...) }, and the return
Exit ==
  /\ pc = "notifyClone"
  /\ idx > Len(ces)
  /\ IF postFailures > 0
     THEN fatal' = "post failures" /\ pc' = "panic"
     ELSE fatal' = fatal /\ pc' = "done"
  /\ UNCHANGED << flags, webhook, remoteWeb, remoteGit, wes, ces, idx, postFailures,
                  attempts, cloneGroups, flagged >>

Next ==
  \/ WebEventsOk
  \/ WebEventsErr
  \/ NotifyWeb
  \/ CloneEventsOk
  \/ CloneEventsErr
  \/ NotifyClone
  \/ Exit

Start ==
  /\ pc = "webEvents"
  /\ wes = <<>>
  /\ ces = <<>>
  /\ idx = 1
  /\ postFailures = 0
  /\ attempts = <<>>
  /\ cloneGroups = <<>>
  /\ flagged = {}
  /\ fatal = ""

Webhooks == { "", "https://hooks.slack.com/services/T" }

\* one actor cloning three private repositories
ThreeClones(u) ==
  << AuditEntry(u, "git.clone", "acme/one", "acme/one", FALSE, MaxTime),
     AuditEntry(u, "git.clone", "acme/two", "acme/two", FALSE, MaxTime),
     AuditEntry(u, "git.clone", "acme/three", "acme/three", FALSE, MaxTime) >>

\* whole runs over the core logs, with a webhook and without
Init ==
  /\ \E t \in Thresholds : flags = Flags(<<"">>, t, MaxTime, 1)
  /\ webhook \in Webhooks
  /\ remoteWeb \in CoreWebLogs
  /\ remoteGit \in CoreGitLogs
  /\ Start

\* runs over every single web record the source may produce
InitWeb ==
  /\ \E cr \in CriticalRepoFlags : flags = Flags(cr, 3, MaxTime, 1)
  /\ webhook \in Webhooks \ { "" }
  /\ remoteWeb \in { <<a>> : a \in WebEntries }
  /\ remoteGit \in { <<>> } \cup { ThreeClones(u) : u \in { "mallory", "ci-bot", "deployer" } }
  /\ Start

\* runs over every git log within the bounds
InitClone ==
  /\ \E t \in Thresholds, w \in Windows : flags = Flags(<<"">>, t, w[2], w[1])
  /\ webhook = ""
  /\ remoteWeb = << AuditEntry("mallory", "repo.access", "acme/sec", "acme/sec", FALSE, MaxTime) >>
  /\ remoteGit \in GitLogs
  /\ Start

Spec == Init /\ [][Next]_vars
SpecWeb == InitWeb /\ [][Next]_vars
SpecClone == InitClone /\ [][Next]_vars


----------------------------------------------------------------------------
(* Vocabulary of the properties, stated apart from the program's code.     *)

\* the records the two fetches returned
webAudit == auditLog(remoteWeb, s.Since)
gitAudit == auditLog(remoteGit, s.MaxClonesSince)

\* webEvents has returned its matches
WebDone == pc # "webEvents" /\ fatal # "web events"

\* cloneEvents has returned its matches
CloneDone == pc \in { "notifyClone", "done" } \/ fatal = "post failures"

\* the run went through both notify loops
RunComplete == pc = "done" \/ fatal = "post failures"

HasSlash(str) == \E j \in 1..Len(str) : SubSeq(str, j, j) = "/"

\* str ends with p: str is some prefix of itself followed by p
EndsWith(str, p) == \E k \in 0..Len(str) : SubSeq(str, 1, k) \o p = str

BotActor(actor) == \E p \in Range(s.BotNames) : EndsWith(actor, p)

\* the part of str after its last "/" (all of str when it has none)
LastSegment(str) ==
  LET k == CHOOSE k \in 1..(Len(str) + 1) :
             /\ k = 1 \/ SubSeq(str, k - 1, k - 1) = "/"
             /\ \A j \in k..Len(str) : SubSeq(str, j, j) # "/"
  IN SubSeq(str, k, Len(str))

\* a pattern as its atoms: a character or ".", starred or not
RECURSIVE Atoms(_)
Atoms(p) ==
  IF p = "" THEN <<>>
  ELSE IF Len(p) >= 2 /\ SubSeq(p, 2, 2) = "*"
       THEN << [c |-> Head(p), star |-> TRUE] >> \o Atoms(SubSeq(p, 3, Len(p)))
  ELSE << [c |-> Head(p), star |-> FALSE] >> \o Atoms(Tail(p))

AtomTakes(atom, ch) == atom.c = "." \/ atom.c = ch

\* the numbers of atoms that may have been passed, given that those of S
\* may: a starred atom may be passed without a character
Skip(A, S) ==
  { k \in 0..Len(A) : \E j \in S : j <= k /\ \A m \in (j + 1)..k : A[m].star }

\* the same after one more character
Take(A, S, ch) ==
  { k \in 1..Len(A) :
      /\ AtomTakes(A[k], ch)
      /\ \/ k - 1 \in S
         \/ k \in S /\ A[k].star }

RECURSIVE Passed(_, _, _)
Passed(A, S, text) ==
  IF text = "" THEN Skip(A, S)
  ELSE Passed(A, Take(A, Skip(A, S), Head(text)), Tail(text))

\* the whole of text matches pattern
FullyMatches(pattern, text) ==
  LET A == Atoms(pattern) IN Len(A) \in Passed(A, {0}, text)

FullyMatchesAny(patterns, text) ==
  \E i \in DOMAIN patterns : FullyMatches(patterns[i], text)

\* the actions of the model's web records, and those among them that fully
\* match a pattern of either list
ModelActions == { a.action : a \in WebEntries \cup CoreWebEntries }
UniversalActions == { act \in ModelActions : FullyMatchesAny(universalIgnore, act) }
NonCriticalActions == { act \in ModelActions : FullyMatchesAny(nonCriticalIgnore, act) }

\* a name qualified with the organization unless it is org/name already
Qualified(name, org) == IF HasSlash(name) THEN name ELSE org \o "/" \o name

\* the critical set: the configured names, bare ones qualified
CriticalSet == { Qualified(r, s.Org) : r \in Range(s.CriticalRepos) }

\* a clone event the aggregation counts
Qualifying(e) == e.action = "git.clone" /\ ~e.public /\ ~BotActor(e.actor)

\* the qualifying events of actor u, in the order the source yielded them
EventsOf(u) == SelectSeq(gitAudit, LAMBDA e : Qualifying(e) /\ e.actor = u)

InShortWindow(e) == e.ts >= s.Since

\* the subsequence of q at the positions in K
Pick(q, K) ==
  LET at == SelectSeq([i \in 1..Len(q) |-> i], LAMBDA i : i \in K)
  IN [k \in 1..Len(at) |-> q[at[k]]]

\* the clone attempts made so far
CloneAttempts == { i \in 1..Len(attempts) : i > Len(wes) }

\* the prefix of a clone alert for the thresholds of the model
ExcessivePrefix ==
  CASE s.MaxClonedRepos = 2 -> "excessive clone[>=2]: "
    [] s.MaxClonedRepos = 3 -> "excessive clone[>=3]: "

----------------------------------------------------------------------------
(* The claims.                                                             *)

\* C1: in the web-event pipeline a fetched record whose action fully matches
\* a universal-ignore pattern is absent from the matches, whatever its
\* repository fields and whatever the critical set holds.
C1_UniversalIgnoreWins ==
  WebDone =>
    \A a \in Range(webAudit) :
       a.action \in UniversalActions => a \notin Range(wes)

\* a universally ignored action by a human on a repository of the critical
\* map was fetched and is not among the matches
C1_Witness ==
  /\ WebDone
  /\ \E a \in Range(webAudit) :
       /\ a.action \in UniversalActions
       /\ a.repo \in criticalMap(s)
       /\ ~BotActor(a.actor)
       /\ a \notin Range(wes)

\* C2: a non-bot record whose fully-qualified repository identity
\* (repository, else repo, bare names qualified with the org) is in the
\* critical set, and whose action matches non-critical patterns only, is
\* among the matches, however the source populated the record.
C2_CriticalRescuesEveryForm ==
  WebDone =>
    \A a \in Range(webAudit) :
       LET name == IF a.repository # "" THEN a.repository ELSE a.repo IN
       ( /\ ~BotActor(a.actor)
         /\ name # ""
         /\ Qualified(name, s.Org) \in CriticalSet
         /\ a.action \in NonCriticalActions
         /\ a.action \notin UniversalActions )
       => a \in Range(wes)

\* C3: an actor is flagged exactly when the distinct final path segments of
\* the repository field over the actor's qualifying events are at least the
\* threshold (owner prefixes do not count), and an actor below the threshold
\* contributes no record to the clone matches.
C3_FlaggedIffDistinctBaseNames ==
  CloneDone =>
    \A u \in { e.actor : e \in Range(gitAudit) } :
       LET segments == { LastSegment(e.repository) : e \in Range(EventsOf(u)) } IN
       /\ u \in flagged <=> Cardinality(segments) >= s.MaxClonedRepos
       /\ u \notin flagged => \A e \in Range(ces) : e.actor # u

\* an actor is flagged over events two of which differ in the owner prefix
\* only, and another actor of the same log is below the threshold
C3_Witness ==
  /\ CloneDone
  /\ \E u \in flagged :
       \E e1, e2 \in Range(EventsOf(u)) :
          /\ e1.repository # e2.repository
          /\ LastSegment(e1.repository) = LastSegment(e2.repository)

\* an actor with qualifying events stays below the threshold and has no match
C3_WitnessBelow ==
  /\ CloneDone
  /\ ces # <<>>
  /\ \E u \in DOMAIN cloneGroups : u \notin flagged

\* C4 as stated: for a flagged actor every qualifying event within the short
\* window on a repository no other such event is on gets exactly one
\* notification attempt, prefixed "excessive clone[>=T]:".
C4_EveryDistinctRepositoryReported ==
  RunComplete =>
    \A u \in flagged :
       \A e \in Range(EventsOf(u)) :
          ( /\ InShortWindow(e)
            /\ \A f \in Range(EventsOf(u)) :
                 (InShortWindow(f) /\ f # e) => f.repository # e.repository )
          => Cardinality({ i \in CloneAttempts :
                             /\ attempts[i].entry = e
                             /\ attempts[i].text.prefix = ExcessivePrefix }) = 1

\* C4 amended: for a flagged actor every qualifying event within the short
\* window whose repo field no other such event shares gets exactly one
\* notification attempt; every clone attempt carries the prefix with the
\* run's threshold.
C4_EveryDistinctRepoFieldReported ==
  /\ \A i \in CloneAttempts : attempts[i].text.prefix = ExcessivePrefix
  /\ RunComplete =>
       \A u \in flagged :
          \A e \in Range(EventsOf(u)) :
             ( /\ InShortWindow(e)
               /\ \A f \in Range(EventsOf(u)) :
                    (InShortWindow(f) /\ f # e) => f.repo # e.repo )
             => Cardinality({ i \in CloneAttempts : attempts[i].entry = e }) = 1

\* the run over mallory's clones of acme/one, acme/two and acme/three with
\* threshold 3 has ended after three clone attempts prefixed
\* "excessive clone[>=3]: "
C4_Witness ==
  /\ RunComplete
  /\ webhook # ""
  /\ s.MaxClonedRepos = 3
  /\ remoteGit = ThreeClones("mallory")
  /\ Cardinality(CloneAttempts) = 3
  /\ \A e \in Range(remoteGit) :
       \E i \in CloneAttempts :
          /\ attempts[i].entry = e
          /\ attempts[i].text.prefix = "excessive clone[>=3]: "

\* C5: the clone matches of a flagged actor are the actor's qualifying events
\* at or after s.Since, in source order, less those another such event
\* walked earlier shares the repo field with.
C5_ReportedInWindowFirstPerRepo ==
  CloneDone =>
    \A u \in flagged :
       LET evs == EventsOf(u)
           kept == { i \in 1..Len(evs) :
                       /\ InShortWindow(evs[i])
                       /\ \A j \in 1..(i - 1) :
                            ~(InShortWindow(evs[j]) /\ evs[j].repo = evs[i].repo) }
       IN SelectSeq(ces, LAMBDA e : e.actor = u) = Pick(evs, kept)

\* a flagged actor has two events in the short window sharing the repo
\* field, an event exactly at s.Since and one before it
C5_Witness ==
  /\ CloneDone
  /\ \E u \in flagged :
       LET evs == EventsOf(u) IN
       /\ \E i, j \in 1..Len(evs) :
            /\ i < j
            /\ evs[i].repo = evs[j].repo
            /\ InShortWindow(evs[i])
            /\ InShortWindow(evs[j])
       /\ \E i \in 1..Len(evs) : evs[i].ts = s.Since
       /\ \E i \in 1..Len(evs) : evs[i].ts < s.Since

\* C6: with a webhook configured every match gets exactly one attempt, in
\* order, failed or not; the failures are counted; the run panics over them
\* only after the last attempt and exactly when the count is positive.
C6_OneAttemptEachThenFatal ==
  webhook # "" =>
    LET matches == wes \o ces IN
    /\ Len(attempts) <= Len(matches)
    /\ \A i \in 1..Len(attempts) : attempts[i].entry = matches[i] /\ attempts[i].posted
    /\ postFailures = Cardinality({ i \in 1..Len(attempts) : ~attempts[i].ok })
    /\ fatal = "post failures" => (Len(attempts) = Len(matches) /\ postFailures > 0)
    /\ pc = "done" => (Len(attempts) = Len(matches) /\ postFailures = 0 /\ fatal = "")

\* a run panicked over post failures after a failed attempt was followed by
\* a successful one, with web and clone matches
C6_Witness ==
  /\ webhook # ""
  /\ fatal = "post failures"
  /\ wes # <<>>
  /\ ces # <<>>
  /\ \E i, j \in 1..Len(attempts) : i < j /\ ~attempts[i].ok /\ attempts[j].ok

\* a run with matches and no failure ended without a panic
C6_WitnessDone ==
  /\ webhook # ""
  /\ pc = "done"
  /\ Len(attempts) >= 2

\* C7 as stated: a run that ended on a fetch failure has posted no
\* notification to the webhook.
C7_NoAttemptBeforeFetchFailure ==
  fatal \in { "web events", "clone events" } =>
    \A i \in 1..Len(attempts) : ~attempts[i].posted

\* C7 amended: a failed web fetch ends the run before any attempt; a failed
\* git fetch ends the run after one attempt for every web match and before
\* any attempt for a clone.
C7_FetchFailureAfterWebAttemptsOnly ==
  /\ fatal = "web events" => (pc = "panic" /\ attempts = <<>>)
  /\ fatal = "clone events" =>
       /\ pc = "panic"
       /\ ces = <<>>
       /\ Len(attempts) = Len(wes)
       /\ \A i \in 1..Len(attempts) :
            attempts[i].entry = wes[i] /\ attempts[i].text.prefix = ""

\* the git fetch failed after two web matches were posted to the webhook
C7_Witness ==
  /\ fatal = "clone events"
  /\ Len(attempts) = 2
  /\ \A i \in 1..Len(attempts) : attempts[i].posted

\* C8: no record of a bot actor is among the web or clone matches, and no
\* record is left out as a bot's when its actor ends with none of the
\* patterns.
C8_BotsAndOnlyBotsExcluded ==
  /\ \A e \in Range(wes) \cup Range(ces) : ~BotActor(e.actor)
  /\ WebDone =>
       \A a \in Range(webAudit) :
          (~BotActor(a.actor) /\ ~webIgnored(a, s)) => a \in Range(wes)
  /\ CloneDone =>
       \A a \in Range(gitAudit) :
          (~BotActor(a.actor) /\ a.action = "git.clone" /\ ~a.public)
          => /\ a.actor \in DOMAIN cloneGroups
             /\ a \in Range(cloneGroups[a.actor])

\* a bot's alert-worthy record was fetched and dropped, and three clones of
\* an actor whose name holds a pattern without ending with it are matched
C8_Witness ==
  /\ CloneDone
  /\ \E a \in Range(webAudit) : BotActor(a.actor) /\ ~webIgnored(a, s)
  /\ \E e \in Range(ces) : e.actor = "deployer"

\* a bot's three clones of private repositories were fetched and not matched
C8_WitnessCloneBot ==
  /\ CloneDone
  /\ remoteGit = ThreeClones("ci-bot")
  /\ ces = <<>>

\* C9 as stated: the location of a message is made of the repository field,
\* of repo only when repository is empty, bare names qualified.
C9_LocationPrefersRepository ==
  \A i \in 1..Len(attempts) :
     LET a == attempts[i].entry
         name == IF a.repository # "" THEN a.repository ELSE a.repo
     IN name # "" => attempts[i].text.location = Qualified(name, s.Org)

\* C9 amended: the location of a message is made of the repo field, of
\* repository only when repo is empty, a bare name qualified with the
\* record's organization; with both empty it is the organization.
C9_LocationPrefersRepo ==
  \A i \in 1..Len(attempts) :
     LET a == attempts[i].entry
         name == IF a.repo # "" THEN a.repo ELSE a.repository
     IN attempts[i].text.location =
          (IF name = "" THEN a.org ELSE Qualified(name, a.org))

\* a message was made of a record with both fields set and different, and
\* its location is the repo field
C9_Witness ==
  /\ \E i \in 1..Len(attempts) :
       LET a == attempts[i].entry IN
       /\ a.repo # "" /\ a.repository # "" /\ a.repo # a.repository
       /\ attempts[i].text.location = a.repo

\* a message was made of a record with a bare name in repository only
C9_WitnessBare ==
  \E i \in 1..Len(attempts) :
     LET a == attempts[i].entry IN
     /\ a.repo = "" /\ a.repository = "sec"
     /\ attempts[i].text.location = "acme/sec"

\* C10: a clone record older than s.MaxClonesSince is never what makes an
\* actor reach the threshold: every flagged actor reaches it over the
\* qualifying records at or after s.MaxClonesSince alone.
C10_OldClonesNeverCounted ==
  CloneDone =>
    \A u \in flagged :
       Cardinality({ LastSegment(e.repository) :
                       e \in { f \in Range(EventsOf(u)) : f.ts >= s.MaxClonesSince } })
         >= s.MaxClonedRepos

====
